---- MODULE Spec2Model ----
(***************************************************************************)
(* Authentication and credential lifecycle of the ChatterBot backend:      *)
(* password hashing (app/core/security.py), JWT issue/decode, the request  *)
(* guard (app/utils/dependencies.py), the user service                     *)
(* (app/services/user_service.py) and the /auth routes                     *)
(* (app/api/routes/auth.py), over a relational store with one transaction  *)
(* per request (app/db/database.py).                                       *)
(*                                                                         *)
(* Strings whose content the code inspects (emails, passwords, token       *)
(* subjects) are sequences of one-character strings.  The clock counts     *)
(* ticks; token lifetimes are given in ticks.                              *)
(***************************************************************************)
EXTENDS Integers, Sequences, FiniteSets, TLC

VARIABLES
    users,      \* committed rows of table "users" (a set of records)
    nextId,     \* next value of the users.id sequence
    now,        \* the clock, in ticks
    issued,     \* bearer tokens handed out so far (held by clients)
    sess,       \* per-session position of an in-flight POST /auth/register
    resp,       \* the response sent by the step just taken (NoResponse when
                \* that step completed no request)
    messages,   \* committed rows of table "chat_messages"
    nextMsgId   \* next value of the chat_messages.id sequence

vars == <<users, nextId, now, issued, sess, resp, messages, nextMsgId>>

----------------------------------------------------------------------------
(* Bounds of the model *)

MaxUsers == 2      \* ids the users.id sequence hands out
MaxTime == 3       \* clock ticks explored
MaxTokens == 4     \* tokens clients hold at once
MaxMessages == 4   \* ids the chat_messages.id sequence hands out
MaxExtra == 8      \* characters a plaintext has beyond what bcrypt reads

(* Settings (app/core/config.py), lifetimes scaled to clock ticks *)
JWT_ACCESS_TOKEN_EXPIRE_MINUTES == 1
JWT_REFRESH_TOKEN_EXPIRE_DAYS == 2
JWT_SECRET_KEY == "secret"
JWT_ALGORITHM == "HS256"

(* Field constraints of RegisterRequest.password *)
PasswordMinLength == 8
PasswordMaxLength == 128

(* Sizes of the hashing primitives (app/core/security.py) *)
BcryptMaxBytes == 72     \* bcrypt reads no more of its input
Sha256HexLength == 64    \* length of a SHA-256 hex digest

Sessions == {"s1", "s2"}

----------------------------------------------------------------------------
(* Characters and strings *)

Digits == {"0", "1", "2", "3", "4", "5", "6", "7", "8", "9"}
UpperCase == {"A", "B", "X"}
LowerCaseLetters == {"a", "b", "x", "p", "s", "w", "o", "r", "d", "c"}
AsciiLetters == UpperCase \cup LowerCaseLetters
Whitespace == {" "}

ToLowerChar(c) ==
    CASE c = "A" -> "a"
      [] c = "B" -> "b"
      [] c = "X" -> "x"
      [] OTHER -> c

\* str.lower()
Lower(s) == [i \in 1..Len(s) |-> ToLowerChar(s[i])]

RECURSIVE LStrip(_)
LStrip(s) == IF s # <<>> /\ Head(s) \in Whitespace THEN LStrip(Tail(s)) ELSE s

RECURSIVE RStrip(_)
RStrip(s) ==
    IF s # <<>> /\ s[Len(s)] \in Whitespace
    THEN RStrip(SubSeq(s, 1, Len(s) - 1))
    ELSE s

\* str.strip()
Strip(s) == RStrip(LStrip(s))

\* email.lower().strip()
NormalizeEmail(email) == Strip(Lower(email))

DigitValue(c) ==
    CASE c = "0" -> 0 [] c = "1" -> 1 [] c = "2" -> 2 [] c = "3" -> 3
      [] c = "4" -> 4 [] c = "5" -> 5 [] c = "6" -> 6 [] c = "7" -> 7
      [] c = "8" -> 8 [] c = "9" -> 9

DigitChar(d) ==
    CASE d = 0 -> "0" [] d = 1 -> "1" [] d = 2 -> "2" [] d = 3 -> "3"
      [] d = 4 -> "4" [] d = 5 -> "5" [] d = 6 -> "6" [] d = 7 -> "7"
      [] d = 8 -> "8" [] d = 9 -> "9"

\* str(user_id) of a non-negative integer
RECURSIVE Str(_)
Str(n) == IF n < 10 THEN <<DigitChar(n)>>
          ELSE Append(Str(n \div 10), DigitChar(n % 10))

\* int(text) succeeds (decimal digits only; anything else the model uses
\* raises ValueError)
IsIntString(text) ==
    /\ text # <<>>
    /\ \A i \in 1..Len(text) : text[i] \in Digits

RECURSIVE Int_(_)
Int_(text) ==
    IF Len(text) = 1 THEN DigitValue(text[1])
    ELSE 10 * Int_(SubSeq(text, 1, Len(text) - 1)) + DigitValue(text[Len(text)])

----------------------------------------------------------------------------
(* Password hashing, app/core/security.py *)

\* a hash path that hands the plaintext to bcrypt as it is
Prehash_skipped(plain) == plain

\* hashlib.sha256(plain).hexdigest(): Sha256HexLength characters that stand
\* for the digest of the whole plaintext (collision-free: the first one
\* carries the plaintext, the others are filler)
Prehash(plain) ==
    [i \in 1..Sha256HexLength |-> IF i = 1 THEN plain ELSE "0"]

\* what bcrypt reads of its input: the first BcryptMaxBytes bytes
BcryptInput(secret) ==
    IF Len(secret) > BcryptMaxBytes
    THEN SubSeq(secret, 1, BcryptMaxBytes)
    ELSE secret

\* pwd_context.hash(secret): bcrypt with a fresh salt
BcryptHash(secret, salt) ==
    [scheme |-> "bcrypt", salt |-> salt,
     checksum |-> <<salt, BcryptInput(secret)>>]

\* pwd_context.verify(secret, hashed): recompute with the stored salt
BcryptVerify(secret, hashed) ==
    hashed.checksum = <<hashed.salt, BcryptInput(secret)>>

hash_password(plain, salt) == BcryptHash(Prehash(plain), salt)

verify_password(plain, hashed) == BcryptVerify(Prehash(plain), hashed)

Salts == {"salt1"}

----------------------------------------------------------------------------
(* Outcomes of a request: what the transport layer sends back *)

None == [none |-> TRUE]

NoHeaders == {}
BearerChallenge == {<<"WWW-Authenticate", "Bearer">>}

\* raise HTTPException(status_code, detail, headers)
HTTPException(status, detail, headers) ==
    [status |-> status, detail |-> detail, headers |-> headers,
     body |-> None, exc |-> "HTTPException"]

\* any other exception leaves the route: the server answers 500
Unhandled(exc) ==
    [status |-> 500, detail |-> "Internal Server Error", headers |-> NoHeaders,
     body |-> None, exc |-> exc]

\* the request body fails its pydantic schema
ValidationFailed(rule) ==
    [status |-> 422, detail |-> rule, headers |-> NoHeaders,
     body |-> None, exc |-> "RequestValidationError"]

Success(status, body) ==
    [status |-> status, detail |-> "", headers |-> NoHeaders,
     body |-> body, exc |-> "none"]

----------------------------------------------------------------------------
(* JWT, app/core/security.py *)

\* HMAC over header and payload with the key
JwtSignature(key, alg, payload) == <<key, alg, payload>>

\* jwt.encode(payload, key, algorithm)
JwtEncode(payload, key, alg) ==
    [header |-> alg, payload |-> payload,
     signature |-> JwtSignature(key, alg, payload)]

create_access_token(user_id, t) ==
    JwtEncode([sub |-> Str(user_id),
               exp |-> t + JWT_ACCESS_TOKEN_EXPIRE_MINUTES,
               type |-> "access"],
              JWT_SECRET_KEY, JWT_ALGORITHM)

create_refresh_token(user_id, t) ==
    JwtEncode([sub |-> Str(user_id),
               exp |-> t + JWT_REFRESH_TOKEN_EXPIRE_DAYS,
               type |-> "refresh"],
              JWT_SECRET_KEY, JWT_ALGORITHM)

\* a decode that does not look at exp
JwtDecodeFails_no_expiry(token, key, alg, t) ==
    \/ "header" \notin DOMAIN token
    \/ token.header # alg
    \/ token.signature # JwtSignature(key, token.header, token.payload)

\* jwt.decode raises JWTError: not three segments, algorithm not allowed,
\* signature mismatch, or exp in the past
JwtDecodeFails(token, key, alg, t) ==
    \/ "header" \notin DOMAIN token
    \/ token.header # alg
    \/ token.signature # JwtSignature(key, token.header, token.payload)
    \/ ("exp" \in DOMAIN token.payload /\ token.payload.exp < t)

Http401Decode ==
    HTTPException(401, "Invalid or expired token", BearerChallenge)

\* a decode that names expiry in its error
decode_token_naming_expiry(token, t) ==
    IF JwtDecodeFails(token, JWT_SECRET_KEY, JWT_ALGORITHM, t)
    THEN [ok |-> FALSE,
          error |-> IF JwtDecodeFails_no_expiry(token, JWT_SECRET_KEY,
                                                JWT_ALGORITHM, t)
                    THEN Http401Decode
                    ELSE HTTPException(401, "Token has expired",
                                       BearerChallenge)]
    ELSE [ok |-> TRUE, payload |-> token.payload]

\* decode_token(token): [ok, payload] or [ok = FALSE, error]
decode_token(token, t) ==
    IF JwtDecodeFails(token, JWT_SECRET_KEY, JWT_ALGORITHM, t)
    THEN [ok |-> FALSE, error |-> Http401Decode]
    ELSE [ok |-> TRUE, payload |-> token.payload]

----------------------------------------------------------------------------
(* Responses *)

\* the record kept in resp
Response(op, req, out, guard, ran) ==
    [op |-> op, req |-> req, status |-> out.status, detail |-> out.detail,
     headers |-> out.headers, body |-> out.body, exc |-> out.exc,
     guard |-> guard, ran |-> ran]

\* a public view that copies every column of the row
UserResponse_all_columns(user) == user

\* UserResponse.model_validate(user): the public view, without the hash
UserResponse(user) ==
    [id |-> user.id, email |-> user.email, full_name |-> user.full_name,
     is_active |-> user.is_active, is_verified |-> user.is_verified]

\* TokenResponse(access_token, refresh_token, user)
TokenResponse(user, t) ==
    [access_token |-> create_access_token(user.id, t),
     refresh_token |-> create_refresh_token(user.id, t),
     token_type |-> "bearer",
     user |-> UserResponse(user)]

----------------------------------------------------------------------------
(* UserService, app/services/user_service.py *)

\* select(User).where(User.id == user_id) ; scalar_one_or_none()
get_by_id(rows, user_id) ==
    IF \E u \in rows : u.id = user_id
    THEN CHOOSE u \in rows : u.id = user_id
    ELSE None

\* a lookup that compares the email as typed
get_by_email_as_typed(rows, email) ==
    IF \E u \in rows : u.email = email
    THEN CHOOSE u \in rows : u.email = email
    ELSE None

\* select(User).where(User.email == email.lower().strip())
get_by_email(rows, email) ==
    IF \E u \in rows : u.email = Strip(Lower(email))
    THEN CHOOSE u \in rows : u.email = Strip(Lower(email))
    ELSE None

\* replace the row of one account in the table
StoreRow(rows, row) == {u \in rows : u.id # row.id} \cup {row}

Http401Credentials ==
    HTTPException(401, "Incorrect email or password", BearerChallenge)

Http403Disabled ==
    HTTPException(403, "This account has been disabled. Contact support.",
                  NoHeaders)

\* authenticate with a message of its own for an unknown email
authenticate_leaky(rows, email, password) ==
    LET user == get_by_email(rows, email) IN
    IF user = None
    THEN [ok |-> FALSE,
          error |-> HTTPException(401, "No account with this email",
                                  BearerChallenge)]
    ELSE IF ~verify_password(password, user.hashed_password)
    THEN [ok |-> FALSE, error |-> Http401Credentials]
    ELSE IF ~user.is_active
    THEN [ok |-> FALSE, error |-> Http403Disabled]
    ELSE [ok |-> TRUE, user |-> user]

\* authenticate that looks at is_active before it verifies the password
authenticate_active_first(rows, email, password) ==
    LET user == get_by_email(rows, email) IN
    IF user = None
    THEN [ok |-> FALSE, error |-> Http401Credentials]
    ELSE IF ~user.is_active
    THEN [ok |-> FALSE, error |-> Http403Disabled]
    ELSE IF ~verify_password(password, user.hashed_password)
    THEN [ok |-> FALSE, error |-> Http401Credentials]
    ELSE [ok |-> TRUE, user |-> user]

\* UserService.authenticate: [ok, user] or [ok = FALSE, error]
authenticate(rows, email, password) ==
    LET user == get_by_email(rows, email) IN
    IF user = None \/ ~verify_password(password, user.hashed_password)
    THEN [ok |-> FALSE, error |-> Http401Credentials]
    ELSE IF ~user.is_active
    THEN [ok |-> FALSE, error |-> Http403Disabled]
    ELSE [ok |-> TRUE, user |-> user]

Http409Conflict ==
    HTTPException(409, "An account with this email already exists", NoHeaders)

\* create without the uniqueness pre-check
create_precheck_absent(rows, email) ==
    [ok |-> TRUE, email |-> NormalizeEmail(email)]

\* UserService.create, steps 1-2: normalize, then the uniqueness pre-check
create_precheck(rows, email) ==
    LET e == NormalizeEmail(email) IN
    IF get_by_email(rows, e) # None
    THEN [ok |-> FALSE, error |-> Http409Conflict]
    ELSE [ok |-> TRUE, email |-> e]

\* UserService.create, step 3: the User object handed to db.add
create_user(id, email, password, full_name, salt) ==
    [id |-> id,
     email |-> email,
     hashed_password |-> hash_password(password, salt),
     full_name |-> IF full_name # None /\ full_name # <<>>
                   THEN Strip(full_name) ELSE None,
     is_active |-> TRUE,
     is_verified |-> FALSE]

\* a users table whose email column is not unique
UniqueViolation_absent(rows, row) == FALSE

\* the unique index on users.email (models.py) refuses the INSERT
UniqueViolation(rows, row) == \E u \in rows : u.email = row.email

----------------------------------------------------------------------------
(* The guard, app/utils/dependencies.py *)

Http401NotAuthenticated ==
    HTTPException(401, "Not authenticated", BearerChallenge)

Http401Payload ==
    HTTPException(401, "Invalid token payload", BearerChallenge)

Http401UserNotFound ==
    HTTPException(401, "User not found", BearerChallenge)

Http403GuardDisabled == HTTPException(403, "Account is disabled", NoHeaders)

GuardRejected(error, trace, lookups) ==
    [ok |-> FALSE, error |-> error, user |-> None,
     trace |-> Append(trace, "Rejected"), lookups |-> lookups]

\* a subject check that also turns away refresh tokens
subject_missing_or_refresh(payload) ==
    \/ "sub" \notin DOMAIN payload
    \/ payload.sub = <<>>
    \/ payload.type # "access"

\* user_id = payload.get("sub"); if not user_id
subject_missing(payload) ==
    \/ "sub" \notin DOMAIN payload
    \/ payload.sub = <<>>

\* a guard that reports a missing account as 404
resolve_account_404(user, passed) ==
    IF user = None
    THEN GuardRejected(HTTPException(404, "User not found", NoHeaders),
                       passed, 1)
    ELSE IF ~user.is_active
    THEN GuardRejected(Http403GuardDisabled,
                       Append(passed, "AccountResolved"), 1)
    ELSE [ok |-> TRUE, error |-> None, user |-> user,
          trace |-> passed \o <<"AccountResolved", "Authorized">>,
          lookups |-> 1]

\* a guard that does not look at is_active
resolve_account_any(user, passed) ==
    IF user = None
    THEN GuardRejected(Http401UserNotFound, passed, 1)
    ELSE [ok |-> TRUE, error |-> None, user |-> user,
          trace |-> passed \o <<"AccountResolved", "Authorized">>,
          lookups |-> 1]

\* get_current_user after the lookup: if not user / if not user.is_active /
\* return user
resolve_account(user, passed) ==
    IF user = None
    THEN GuardRejected(Http401UserNotFound, passed, 1)
    ELSE IF ~user.is_active
    THEN GuardRejected(Http403GuardDisabled,
                       Append(passed, "AccountResolved"), 1)
    ELSE [ok |-> TRUE, error |-> None, user |-> user,
          trace |-> passed \o <<"AccountResolved", "Authorized">>,
          lookups |-> 1]

\* get_current_user(token = Depends(oauth2_scheme), db): the states of the
\* guard passed on the way are kept in trace, the store reads in lookups
get_current_user(authorization, rows, t) ==
    IF authorization = None
    THEN GuardRejected(Http401NotAuthenticated, <<"NoToken">>, 0)
    ELSE
    LET decoded == decode_token(authorization, t) IN
    IF ~decoded.ok
    THEN GuardRejected(decoded.error, <<"NoToken", "TokenPresent">>, 0)
    ELSE
    LET payload == decoded.payload
        passed == <<"NoToken", "TokenPresent", "Decoded">>
    IN
    IF subject_missing(payload)
    THEN GuardRejected(Http401Payload, passed, 0)
    ELSE IF ~IsIntString(payload.sub)
    THEN GuardRejected(Unhandled("ValueError"), passed, 0)
    ELSE resolve_account(get_by_id(rows, Int_(payload.sub)), passed)

----------------------------------------------------------------------------
(* Request schemas, app/schemes/auth.py *)

HasLetter(v) == \E i \in 1..Len(v) : v[i] \in AsciiLetters
HasDigit(v) == \E i \in 1..Len(v) : v[i] \in Digits

\* pydantic's EmailStr. validate_email takes the address out of the display
\* form "Name <address>", strips it, has email-validator check it and
\* returns the normalized address: the local part as typed, the domain in
\* lower case. [ok, email] or [ok = FALSE].
NameChars == AsciiLetters \cup Digits \cup Whitespace

AddressChars == AsciiLetters \cup Digits \cup {"."}

PrettyAddress(value) ==
    LET v == RStrip(value)
        opens == {i \in 1..Len(v) : v[i] = "<"}
    IN
    IF v # <<>> /\ v[Len(v)] = ">" /\ opens # {}
    THEN LET open == CHOOSE i \in opens : \A j \in opens : i <= j IN
         IF open + 1 < Len(v)
            /\ \A j \in 1..(open - 1) : v[j] \in NameChars
         THEN SubSeq(v, open + 1, Len(v) - 1)
         ELSE value
    ELSE value

EmailStr(value) ==
    LET email == Strip(PrettyAddress(value))
        ats == {i \in 1..Len(email) : email[i] = "@"}
    IN
    IF /\ Cardinality(ats) = 1
       /\ \A i \in 1..Len(email) : i \in ats \/ email[i] \in AddressChars
       /\ 1 \notin ats /\ Len(email) \notin ats
    THEN LET at == CHOOSE i \in ats : TRUE IN
         [ok |-> TRUE,
          email |-> SubSeq(email, 1, at)
                    \o Lower(SubSeq(email, at + 1, Len(email)))]
    ELSE [ok |-> FALSE]

\* a RegisterRequest that keeps the length rules and the match rule and drops
\* the password_strength validator
RegisterRequestCheck_length_only(payload) ==
    IF ~EmailStr(payload.email).ok
    THEN "email"
    ELSE IF Len(payload.password) < PasswordMinLength
       \/ Len(payload.password) > PasswordMaxLength
    THEN "password length"
    ELSE IF Len(payload.confirm_password) < PasswordMinLength
            \/ Len(payload.confirm_password) > PasswordMaxLength
    THEN "confirm_password length"
    ELSE IF payload.password # payload.confirm_password
    THEN "Passwords do not match"
    ELSE "ok"

\* RegisterRequest: the first rule the payload fails, or "ok"
RegisterRequestCheck(payload) ==
    IF ~EmailStr(payload.email).ok
    THEN "email"
    ELSE IF Len(payload.password) < PasswordMinLength
       \/ Len(payload.password) > PasswordMaxLength
    THEN "password length"
    ELSE IF ~HasLetter(payload.password)
    THEN "Password must contain at least one letter"
    ELSE IF ~HasDigit(payload.password)
    THEN "Password must contain at least one number"
    ELSE IF Len(payload.confirm_password) < PasswordMinLength
            \/ Len(payload.confirm_password) > PasswordMaxLength
    THEN "confirm_password length"
    ELSE IF payload.password # payload.confirm_password
    THEN "Passwords do not match"
    ELSE "ok"

\* LoginRequest: email is an EmailStr, password has min_length 1
LoginRequestCheck(payload) ==
    IF ~EmailStr(payload.email).ok THEN "email"
    ELSE IF Len(payload.password) < 1 THEN "password length"
    ELSE "ok"

\* OAuth2PasswordRequestForm: username and password are required form
\* fields, and an empty form value counts as a missing one
OAuth2PasswordRequestFormCheck(form) ==
    IF Len(form.username) < 1 THEN "username required"
    ELSE IF Len(form.password) < 1 THEN "password required"
    ELSE "ok"

\* ChangePasswordRequest: field rules in declaration order, then the two
\* model validators (which run only when every field passed)
ChangePasswordRequestCheck(payload) ==
    IF Len(payload.current_password) < 1
    THEN "current_password length"
    ELSE IF Len(payload.new_password) < PasswordMinLength
            \/ Len(payload.new_password) > PasswordMaxLength
    THEN "new_password length"
    ELSE IF ~HasLetter(payload.new_password)
    THEN "New password must contain at least one letter"
    ELSE IF ~HasDigit(payload.new_password)
    THEN "New password must contain at least one number"
    ELSE IF Len(payload.confirm_new_password) < PasswordMinLength
            \/ Len(payload.confirm_new_password) > PasswordMaxLength
    THEN "confirm_new_password length"
    ELSE IF payload.new_password # payload.confirm_new_password
    THEN "New passwords do not match"
    ELSE IF payload.current_password = payload.new_password
    THEN "New password must be different from current password"
    ELSE "ok"

\* ChatRequest: message has min_length 1
ChatRequestCheck(message) ==
    IF Len(message) < 1 THEN "message length" ELSE "ok"

----------------------------------------------------------------------------
(* Inputs *)

EmailA == <<"a", "@", "x">>
EmailB == <<"b", "@", "x">>
RawEmails == {EmailA, <<" ", "A", "@", "X", " ">>, EmailB}

\* EmailA in the display form, and a string that is no email address
PrettyEmail == <<"A", " ", "<", "a", "@", "x", ">">>
NotAnEmail == <<"a", "x">>

Pw1 == <<"p", "a", "s", "s", "w", "o", "r", "1">>
Pw2 == <<"p", "a", "s", "s", "w", "o", "r", "2">>
Pw3 == <<"p", "a", "s", "s", "w", "o", "r", "3">>
PwShort == <<"a", "b", "1">>
PwNoDigit == <<"p", "a", "s", "s", "w", "o", "r", "d">>
PwNoLetter == <<"1", "2", "3", "4", "5", "6", "7", "8">>
GoodPasswords == {Pw1, Pw2}
WeakPasswords == {PwShort, PwNoDigit, PwNoLetter}

FullNames == {None, <<" ", "J", "o">>}

RegisterPayloads ==
    [email : RawEmails,
     password : GoodPasswords \cup WeakPasswords,
     confirm_password : GoodPasswords,
     full_name : FullNames]

LoginPayloads == [email : RawEmails, password : GoodPasswords \cup {<<>>}]

FarFuture == MaxTime + 1

\* what a caller without the signing key can send: no JWT at all, a JWT
\* signed with another key, a JWT of another algorithm, an issued JWT with
\* its payload altered
ForgedTokens ==
    {[raw |-> "garbage"],
     JwtEncode([sub |-> <<"1">>, exp |-> FarFuture, type |-> "access"],
               "other-key", JWT_ALGORITHM),
     JwtEncode([sub |-> <<"1">>, exp |-> FarFuture, type |-> "access"],
               JWT_SECRET_KEY, "HS512")}
    \cup {[tok EXCEPT !.payload.exp = FarFuture] : tok \in issued}

\* JWTs that carry a valid signature but not a subject the routes mint:
\* no "sub", an empty one, one that is no integer, one of no account
OddSubjectTokens ==
    {JwtEncode([exp |-> FarFuture, type |-> "access"],
               JWT_SECRET_KEY, JWT_ALGORITHM)}
    \cup {JwtEncode([sub |-> sub, exp |-> FarFuture, type |-> "access"],
                    JWT_SECRET_KEY, JWT_ALGORITHM) :
          sub \in {<<>>, <<"a", "b", "c">>, <<"9">>}}

BearerTokens == issued \cup ForgedTokens \cup OddSubjectTokens

\* the Authorization header of a request: absent, or Bearer <token>
Authorizations == {None} \cup BearerTokens

----------------------------------------------------------------------------
(* State *)

Idle == [pc |-> "idle", email |-> <<>>, password |-> <<>>,
         full_name |-> None, row |-> None, req |-> None]

NoResponse ==
    [op |-> "none", req |-> None, status |-> 0, detail |-> "",
     headers |-> NoHeaders, body |-> None, exc |-> "none",
     guard |-> None, ran |-> FALSE]

Init ==
    /\ users = {}
    /\ nextId = 1
    /\ now = 0
    /\ issued = {}
    /\ sess = [s \in Sessions |-> Idle]
    /\ resp = NoResponse
    /\ messages = {}
    /\ nextMsgId = 1

\* the tokens of a TokenResponse reach the client
Issue(body) == issued \cup {body.access_token, body.refresh_token}

CanIssue(body) == Cardinality(Issue(body)) <= MaxTokens

----------------------------------------------------------------------------
(* POST /auth/register, one session (transaction) per request *)

\* what register answers before any INSERT: the schema's 422, the
\* pre-check's 409, or None when the request goes on to insert
register_early(payload, rows) ==
    LET check == RegisterRequestCheck(payload)
        pre == create_precheck(rows, EmailStr(payload.email).email)
    IN
    IF check # "ok" THEN ValidationFailed(check)
    ELSE IF ~pre.ok THEN pre.error
    ELSE None

\* schema validation, then UserService.create up to the pre-check
RegisterStart(s, payload) ==
    /\ sess[s].pc = "idle"
    /\ LET early == register_early(payload, users) IN
       IF early # None
       THEN /\ resp' = Response("register", payload, early, None,
                                early.status # 422)
            /\ UNCHANGED sess
       ELSE /\ sess' = [sess EXCEPT ![s] =
                          [pc |-> "checked",
                           email |-> NormalizeEmail(EmailStr(payload.email).email),
                           password |-> payload.password,
                           full_name |-> payload.full_name, row |-> None,
                           req |-> None]]
            /\ resp' = NoResponse
    /\ UNCHANGED <<users, nextId, now, issued, messages, nextMsgId>>

\* db.add(user); db.flush(): the INSERT runs in the session's transaction.
\* It waits while another open transaction holds the same email, and fails
\* with IntegrityError when a committed row holds it; get_db then rolls back
\* and re-raises, and nothing catches the exception.
RegisterFlush(s, salt) ==
    /\ sess[s].pc = "checked"
    /\ nextId <= MaxUsers
    /\ LET row == create_user(nextId, sess[s].email, sess[s].password,
                              sess[s].full_name, salt)
           req == [email |-> sess[s].email, password |-> sess[s].password,
                   full_name |-> sess[s].full_name]
       IN
       /\ ~\E o \in Sessions \ {s} :
              sess[o].pc = "flushed" /\ sess[o].row.email = row.email
       /\ IF UniqueViolation(users, row)
          THEN /\ resp' = Response("register", req,
                                   Unhandled("IntegrityError"), None, TRUE)
               /\ sess' = [sess EXCEPT ![s] = Idle]
               /\ UNCHANGED nextId
          ELSE /\ sess' = [sess EXCEPT ![s].pc = "flushed", ![s].row = row]
               /\ nextId' = nextId + 1
               /\ resp' = NoResponse
    /\ UNCHANGED <<users, now, issued, messages, nextMsgId>>

\* the route builds the TokenResponse; get_db commits the session
RegisterCommit(s) ==
    /\ sess[s].pc = "flushed"
    /\ LET row == sess[s].row
           body == TokenResponse(row, now)
           req == [email |-> sess[s].email, password |-> sess[s].password,
                   full_name |-> sess[s].full_name]
       IN
       /\ CanIssue(body)
       /\ users' = users \cup {row}
       /\ issued' = Issue(body)
       /\ resp' = Response("register", req, Success(201, body), None, TRUE)
    /\ sess' = [sess EXCEPT ![s] = Idle]
    /\ UNCHANGED <<nextId, now, messages, nextMsgId>>

----------------------------------------------------------------------------
(* POST /auth/login *)

\* the outcome of the route login(payload, db) at time t
login(payload, rows, t) ==
    LET check == LoginRequestCheck(payload)
        auth == authenticate(rows, EmailStr(payload.email).email,
                             payload.password)
    IN
    IF check # "ok" THEN ValidationFailed(check)
    ELSE IF ~auth.ok THEN auth.error
    ELSE Success(200, TokenResponse(auth.user, t))

\* a login that stores a fresh hash of the password it has just verified
Login_rehashing(payload) ==
    LET out == login(payload, users, now) IN
    /\ resp' = Response("login", payload, out, None, out.status # 422)
    /\ IF out.status = 200
       THEN /\ CanIssue(out.body)
            /\ issued' = Issue(out.body)
            /\ users' = StoreRow(users,
                   [get_by_email(users, payload.email) EXCEPT
                      !.hashed_password = hash_password(payload.password, "rehash")])
       ELSE UNCHANGED <<issued, users>>
    /\ UNCHANGED <<nextId, now, sess, messages, nextMsgId>>

Login(payload) ==
    LET out == login(payload, users, now) IN
    /\ resp' = Response("login", payload, out, None, out.status # 422)
    /\ IF out.status = 200
       THEN CanIssue(out.body) /\ issued' = Issue(out.body)
       ELSE UNCHANGED issued
    /\ UNCHANGED <<users, nextId, now, sess, messages, nextMsgId>>

----------------------------------------------------------------------------
(* POST /auth/token *)

\* the outcome of the route login_oauth2_form(form, db) at time t: the
\* form's username is passed to authenticate as the email
login_oauth2_form(form, rows, t) ==
    LET check == OAuth2PasswordRequestFormCheck(form)
        auth == authenticate(rows, form.username, form.password)
    IN
    IF check # "ok" THEN ValidationFailed(check)
    ELSE IF ~auth.ok THEN auth.error
    ELSE Success(200, TokenResponse(auth.user, t))

LoginForm(form) ==
    LET out == login_oauth2_form(form, users, now) IN
    /\ resp' = Response("token", form, out, None, out.status # 422)
    /\ IF out.status = 200
       THEN CanIssue(out.body) /\ issued' = Issue(out.body)
       ELSE UNCHANGED issued
    /\ UNCHANGED <<users, nextId, now, sess, messages, nextMsgId>>

----------------------------------------------------------------------------
(* POST /auth/refresh *)

Http401RefreshUserNotFound == HTTPException(401, "User not found", NoHeaders)

\* the outcome of the route refresh_token(payload, db)
refresh_token(token, rows, t) ==
    LET decoded == decode_token(token, t) IN
    IF ~decoded.ok
    THEN decoded.error
    ELSE IF "sub" \notin DOMAIN decoded.payload
    THEN Unhandled("KeyError")
    ELSE IF ~IsIntString(decoded.payload.sub)
    THEN Unhandled("ValueError")
    ELSE
    LET user == get_by_id(rows, Int_(decoded.payload.sub)) IN
    IF user = None
    THEN Http401RefreshUserNotFound
    ELSE Success(200, TokenResponse(user, t))

Refresh(token) ==
    LET out == refresh_token(token, users, now) IN
    /\ resp' = Response("refresh", [refresh_token |-> token], out,
                        None, TRUE)
    /\ IF out.status = 200
       THEN CanIssue(out.body) /\ issued' = Issue(out.body)
       ELSE UNCHANGED issued
    /\ UNCHANGED <<users, nextId, now, sess, messages, nextMsgId>>

----------------------------------------------------------------------------
(* Routes behind Depends(get_current_user) *)

GuardInfo(g) == [trace |-> g.trace, lookups |-> g.lookups]

\* GET /auth/me
GetMe(authorization) ==
    LET g == get_current_user(authorization, users, now)
        req == [authorization |-> authorization]
    IN
    /\ resp' = IF ~g.ok
               THEN Response("me", req, g.error, GuardInfo(g), FALSE)
               ELSE Response("me", req, Success(200, UserResponse(g.user)),
                             GuardInfo(g), TRUE)
    /\ UNCHANGED <<users, nextId, now, issued, sess, messages, nextMsgId>>

\* a logout that revokes the caller's tokens by disabling the account
Logout_revoking(authorization) ==
    LET g == get_current_user(authorization, users, now)
        req == [authorization |-> authorization]
    IN
    /\ resp' = IF ~g.ok
               THEN Response("logout", req, g.error, GuardInfo(g), FALSE)
               ELSE Response("logout", req,
                             Success(200, [message |-> <<"Goodbye", g.user.email>>]),
                             GuardInfo(g), TRUE)
    /\ users' = IF g.ok
                THEN (users \ {g.user}) \cup {[g.user EXCEPT !.is_active = FALSE]}
                ELSE users
    /\ UNCHANGED <<nextId, now, issued, sess, messages, nextMsgId>>

\* POST /auth/logout: answers, and changes nothing
Logout(authorization) ==
    LET g == get_current_user(authorization, users, now)
        req == [authorization |-> authorization]
    IN
    /\ resp' = IF ~g.ok
               THEN Response("logout", req, g.error, GuardInfo(g), FALSE)
               ELSE Response("logout", req,
                             Success(200, [message |-> <<"Goodbye", g.user.email>>]),
                             GuardInfo(g), TRUE)
    /\ UNCHANGED <<users, nextId, now, issued, sess, messages, nextMsgId>>

\* PUT /auth/me: full_name is a required query parameter; the route assigns
\* it to the loaded row as received and get_db commits the session
UpdateProfile(authorization, full_name) ==
    LET g == get_current_user(authorization, users, now)
        req == [authorization |-> authorization, full_name |-> full_name]
    IN
    /\ IF ~g.ok
       THEN /\ resp' = Response("update_profile", req, g.error,
                                GuardInfo(g), FALSE)
            /\ UNCHANGED users
       ELSE IF full_name = None
       THEN /\ resp' = Response("update_profile", req,
                                ValidationFailed("full_name required"),
                                GuardInfo(g), FALSE)
            /\ UNCHANGED users
       ELSE LET row == [g.user EXCEPT !.full_name = full_name] IN
            /\ users' = StoreRow(users, row)
            /\ resp' = Response("update_profile", req,
                                Success(200, UserResponse(row)),
                                GuardInfo(g), TRUE)
    /\ UNCHANGED <<nextId, now, issued, sess, messages, nextMsgId>>

Http400CurrentPassword ==
    HTTPException(400, "Current password is incorrect", NoHeaders)

\* a change_password that does not look at current_password
change_password_unverified(user, current_password, new_password, salt) ==
    [ok |-> TRUE,
     user |-> [user EXCEPT !.hashed_password = hash_password(new_password, salt)]]

\* a change_password that verifies and answers but stores nothing
change_password_unsaved(user, current_password, new_password, salt) ==
    IF ~verify_password(current_password, user.hashed_password)
    THEN [ok |-> FALSE, error |-> Http400CurrentPassword]
    ELSE [ok |-> TRUE, user |-> user]

\* UserService.change_password: [ok, user] or [ok = FALSE, error]
change_password(user, current_password, new_password, salt) ==
    IF ~verify_password(current_password, user.hashed_password)
    THEN [ok |-> FALSE, error |-> Http400CurrentPassword]
    ELSE [ok |-> TRUE,
          user |-> [user EXCEPT
                      !.hashed_password = hash_password(new_password, salt)]]

\* POST /auth/change-password: guard, schema, service; get_db commits
ChangePassword(authorization, payload, salt) ==
    LET g == get_current_user(authorization, users, now)
        req == [authorization |-> authorization, payload |-> payload]
        check == ChangePasswordRequestCheck(payload)
    IN
    /\ IF ~g.ok
       THEN /\ resp' = Response("change_password", req, g.error,
                                GuardInfo(g), FALSE)
            /\ UNCHANGED users
       ELSE IF check # "ok"
       THEN /\ resp' = Response("change_password", req,
                                ValidationFailed(check), GuardInfo(g), FALSE)
            /\ UNCHANGED users
       ELSE LET done == change_password(g.user, payload.current_password,
                                        payload.new_password, salt)
            IN
            IF ~done.ok
            THEN /\ resp' = Response("change_password", req, done.error,
                                     GuardInfo(g), TRUE)
                 /\ UNCHANGED users
            ELSE /\ users' = StoreRow(users, done.user)
                 /\ resp' = Response("change_password", req,
                            Success(200, [message |-> "Password changed successfully"]),
                            GuardInfo(g), TRUE)
    /\ UNCHANGED <<nextId, now, issued, sess, messages, nextMsgId>>

\* POST /auth/change-password as the steps of one request session s, so
\* that two requests can interleave. First the guard loads the account row
\* into the session and the body is validated.
ChangePasswordStart(s, authorization, payload) ==
    LET g == get_current_user(authorization, users, now)
        req == [authorization |-> authorization, payload |-> payload]
        check == ChangePasswordRequestCheck(payload)
    IN
    /\ sess[s].pc = "idle"
    /\ IF ~g.ok
       THEN /\ resp' = Response("change_password", req, g.error,
                                GuardInfo(g), FALSE)
            /\ UNCHANGED sess
       ELSE IF check # "ok"
       THEN /\ resp' = Response("change_password", req,
                                ValidationFailed(check), GuardInfo(g), FALSE)
            /\ UNCHANGED sess
       ELSE /\ sess' = [sess EXCEPT ![s] =
                          [Idle EXCEPT !.pc = "loaded", !.row = g.user,
                                       !.req = [req |-> req, guard |-> GuardInfo(g)]]]
            /\ resp' = NoResponse
    /\ UNCHANGED <<users, nextId, now, issued, messages, nextMsgId>>

\* UserService.change_password on the row the session loaded: verify, assign
\* the new hash, db.flush(). The UPDATE waits while another open transaction
\* has updated the same row; a 400 makes get_db roll back.
ChangePasswordFlush(s, salt) ==
    /\ sess[s].pc = "loaded"
    /\ LET req == sess[s].req.req
           done == change_password(sess[s].row, req.payload.current_password,
                                   req.payload.new_password, salt)
       IN
       IF ~done.ok
       THEN /\ resp' = Response("change_password", req, done.error,
                                sess[s].req.guard, TRUE)
            /\ sess' = [sess EXCEPT ![s] = Idle]
       ELSE /\ ~\E o \in Sessions \ {s} :
                   sess[o].pc = "updated" /\ sess[o].row.id = sess[s].row.id
            /\ sess' = [sess EXCEPT ![s].pc = "updated", ![s].row = done.user]
            /\ resp' = NoResponse
    /\ UNCHANGED <<users, nextId, now, issued, messages, nextMsgId>>

\* the route answers and get_db commits: the UPDATE set the hashed_password
\* column of the row with the session's user id
ChangePasswordCommit(s) ==
    /\ sess[s].pc = "updated"
    /\ LET stored == get_by_id(users, sess[s].row.id) IN
       /\ stored # None
       /\ users' = StoreRow(users,
              [stored EXCEPT !.hashed_password = sess[s].row.hashed_password])
    /\ resp' = Response("change_password", sess[s].req.req,
                        Success(200, [message |-> "Password changed successfully"]),
                        sess[s].req.guard, TRUE)
    /\ sess' = [sess EXCEPT ![s] = Idle]
    /\ UNCHANGED <<nextId, now, issued, messages, nextMsgId>>

----------------------------------------------------------------------------
(* Chat routes, app/api/routes/chat.py *)

\* ollama_service.generate_reply: the reply text, or the HTTPException it
\* raises when Ollama cannot be reached, times out or answers non-200
OllamaOutcomes ==
    {[ok |-> TRUE, reply |-> <<"h", "i">>],
     [ok |-> FALSE, error |-> HTTPException(503, "Cannot reach Ollama", NoHeaders)],
     [ok |-> FALSE, error |-> HTTPException(504, "Ollama timed out", NoHeaders)],
     [ok |-> FALSE, error |-> HTTPException(502, "Ollama returned an error", NoHeaders)]}

ChatMessage(id, user_id, role, content) ==
    [id |-> id, user_id |-> user_id, role |-> role, content |-> content]

\* what generate_reply can also end in: an answer 200 whose JSON lacks
\* message.content, or an httpx error other than connect and timeout; the
\* exception leaves the route
RelayOutcomes ==
    OllamaOutcomes \cup {[ok |-> FALSE, error |-> Unhandled("KeyError")]}

\* a send_message that stores the user's message before it calls Ollama
SendMessage_user_first(authorization, message, upstream) ==
    LET g == get_current_user(authorization, users, now)
        req == [authorization |-> authorization, message |-> message]
        check == ChatRequestCheck(message)
    IN
    /\ IF ~g.ok
       THEN /\ resp' = Response("chat", req, g.error, GuardInfo(g), FALSE)
            /\ UNCHANGED <<messages, nextMsgId>>
       ELSE IF check # "ok"
       THEN /\ resp' = Response("chat", req, ValidationFailed(check),
                                GuardInfo(g), FALSE)
            /\ UNCHANGED <<messages, nextMsgId>>
       ELSE IF ~upstream.ok
       THEN /\ nextMsgId <= MaxMessages
            /\ messages' = messages \cup
                   {ChatMessage(nextMsgId, g.user.id, "user", message)}
            /\ nextMsgId' = nextMsgId + 1
            /\ resp' = Response("chat", req, upstream.error,
                                GuardInfo(g), TRUE)
       ELSE /\ nextMsgId + 1 <= MaxMessages
            /\ messages' = messages \cup
                   {ChatMessage(nextMsgId, g.user.id, "user", message),
                    ChatMessage(nextMsgId + 1, g.user.id, "assistant",
                                upstream.reply)}
            /\ nextMsgId' = nextMsgId + 2
            /\ resp' = Response("chat", req,
                                Success(200, [reply |-> upstream.reply]),
                                GuardInfo(g), TRUE)
    /\ UNCHANGED <<users, nextId, now, issued, sess>>

\* POST /chat: guard, schema, the call to Ollama, then both rows are added
\* to the session that get_db commits
SendMessage(authorization, message, upstream) ==
    LET g == get_current_user(authorization, users, now)
        req == [authorization |-> authorization, message |-> message]
        check == ChatRequestCheck(message)
    IN
    /\ IF ~g.ok
       THEN /\ resp' = Response("chat", req, g.error, GuardInfo(g), FALSE)
            /\ UNCHANGED <<messages, nextMsgId>>
       ELSE IF check # "ok"
       THEN /\ resp' = Response("chat", req, ValidationFailed(check),
                                GuardInfo(g), FALSE)
            /\ UNCHANGED <<messages, nextMsgId>>
       ELSE IF ~upstream.ok
       THEN /\ resp' = Response("chat", req, upstream.error,
                                GuardInfo(g), TRUE)
            /\ UNCHANGED <<messages, nextMsgId>>
       ELSE /\ nextMsgId + 1 <= MaxMessages
            /\ messages' = messages \cup
                   {ChatMessage(nextMsgId, g.user.id, "user", message),
                    ChatMessage(nextMsgId + 1, g.user.id, "assistant",
                                upstream.reply)}
            /\ nextMsgId' = nextMsgId + 2
            /\ resp' = Response("chat", req,
                                Success(200, [reply |-> upstream.reply]),
                                GuardInfo(g), TRUE)
    /\ UNCHANGED <<users, nextId, now, issued, sess>>

\* DELETE /chat/clear: delete(ChatMessage).where(user_id == current_user.id)
ClearChat(authorization) ==
    LET g == get_current_user(authorization, users, now)
        req == [authorization |-> authorization]
    IN
    /\ IF ~g.ok
       THEN /\ resp' = Response("clear_chat", req, g.error,
                                GuardInfo(g), FALSE)
            /\ UNCHANGED messages
       ELSE LET mine == {m \in messages : m.user_id = g.user.id} IN
            /\ messages' = messages \ mine
            /\ resp' = Response("clear_chat", req,
                                Success(200, [status |-> "cleared",
                                              messages_deleted |-> Cardinality(mine)]),
                                GuardInfo(g), TRUE)
    /\ UNCHANGED <<users, nextId, now, issued, sess, nextMsgId>>

----------------------------------------------------------------------------
(* Service operations that no route of auth.py reaches; each runs in a     *)
(* session of its own and commits                                          *)

ServiceDone(op, user_id) ==
    Response(op, [user_id |-> user_id], Success(0, None), None, TRUE)

\* UserService.deactivate: user.is_active = False
Deactivate(user_id) ==
    /\ \E u \in users :
          /\ u.id = user_id
          /\ users' = (users \ {u}) \cup {[u EXCEPT !.is_active = FALSE]}
    /\ resp' = ServiceDone("deactivate", user_id)
    /\ UNCHANGED <<nextId, now, issued, sess, messages, nextMsgId>>

\* a delete that removes the users row and leaves the chat_messages rows
DeleteAccount_orphaning(user_id) ==
    /\ \E u \in users :
          /\ u.id = user_id
          /\ users' = users \ {u}
    /\ resp' = ServiceDone("delete", user_id)
    /\ UNCHANGED <<nextId, now, issued, sess, messages, nextMsgId>>

\* UserService.delete: db.delete(user); the relationship User.messages
\* (cascade="all, delete") and the foreign key (ondelete="CASCADE") remove
\* the user's chat_messages rows in the same flush
DeleteAccount(user_id) ==
    /\ \E u \in users :
          /\ u.id = user_id
          /\ users' = users \ {u}
    /\ messages' = {m \in messages : m.user_id # user_id}
    /\ resp' = ServiceDone("delete", user_id)
    /\ UNCHANGED <<nextId, now, issued, sess, nextMsgId>>

----------------------------------------------------------------------------
(* Environment *)

\* time passes
Tick ==
    /\ now < MaxTime
    /\ now' = now + 1
    /\ resp' = NoResponse
    /\ UNCHANGED <<users, nextId, issued, sess, messages, nextMsgId>>

----------------------------------------------------------------------------
(* Specifications *)

\* Accounts and credentials: two register requests in flight at once, login,
\* deactivation and deletion
AccountPayloads ==
    [email : RawEmails, password : GoodPasswords,
     confirm_password : {Pw1}, full_name : {None}]
    \cup [email : {EmailA}, password : WeakPasswords,
          confirm_password : {Pw1}, full_name : {None}]

NextAccounts ==
    \/ \E s \in Sessions, payload \in AccountPayloads : RegisterStart(s, payload)
    \/ \E s \in Sessions, salt \in Salts : RegisterFlush(s, salt)
    \/ \E s \in Sessions : RegisterCommit(s)
    \/ \E payload \in LoginPayloads : Login(payload)
    \/ \E user_id \in 1..MaxUsers : Deactivate(user_id)
    \/ \E user_id \in 1..MaxUsers : DeleteAccount(user_id)

SpecAccounts == Init /\ [][NextAccounts]_vars

\* The guard and the token routes: accounts come from one register session,
\* time passes, accounts are disabled and deleted
GuardPayloads ==
    [email : {EmailA, EmailB}, password : {Pw1},
     confirm_password : {Pw1}, full_name : {None}]

Next ==
    \/ \E payload \in GuardPayloads : RegisterStart("s1", payload)
    \/ \E salt \in Salts : RegisterFlush("s1", salt)
    \/ RegisterCommit("s1")
    \/ \E token \in BearerTokens : Refresh(token)
    \/ \E authorization \in Authorizations : GetMe(authorization)
    \/ \E user_id \in 1..MaxUsers : Deactivate(user_id)
    \/ \E user_id \in 1..MaxUsers : DeleteAccount(user_id)
    \/ Tick

Spec == Init /\ [][Next]_vars

\* Token lifecycle: register and login hand out tokens, clients refresh
\* them, log out and call a protected route while time passes and accounts
\* are disabled
SessionLoginPayloads == [email : {EmailA}, password : {Pw1, Pw2}]

SessionLoginForms == [username : {EmailA}, password : {Pw1, Pw2}]

NextSessions ==
    \/ \E payload \in GuardPayloads : RegisterStart("s1", payload)
    \/ \E salt \in Salts : RegisterFlush("s1", salt)
    \/ RegisterCommit("s1")
    \/ \E payload \in SessionLoginPayloads : Login(payload)
    \/ \E form \in SessionLoginForms : LoginForm(form)
    \/ \E token \in issued \cup ForgedTokens : Refresh(token)
    \/ \E authorization \in {None} \cup issued : Logout(authorization)
    \/ \E authorization \in {None} \cup issued : GetMe(authorization)
    \/ \E user_id \in 1..MaxUsers : Deactivate(user_id)
    \/ Tick

SpecSessions == Init /\ [][NextSessions]_vars

\* Credentials: accounts register, log in under any spelling of their
\* email, change their password and are disabled
CredentialPayloads ==
    [email : {EmailA, EmailB}, password : {Pw1},
     confirm_password : {Pw1}, full_name : {None}]

CredentialLoginPayloads == [email : RawEmails, password : GoodPasswords]

ChangePasswordPayloads ==
    [current_password : GoodPasswords, new_password : GoodPasswords,
     confirm_new_password : GoodPasswords]
    \cup [current_password : {Pw1}, new_password : {PwShort, PwNoDigit},
          confirm_new_password : {Pw2}]

NextCredentials ==
    \/ \E payload \in CredentialPayloads : RegisterStart("s1", payload)
    \/ \E salt \in Salts : RegisterFlush("s1", salt)
    \/ RegisterCommit("s1")
    \/ \E payload \in CredentialLoginPayloads : Login(payload)
    \/ \E authorization \in {None} \cup issued, payload \in ChangePasswordPayloads,
          salt \in Salts : ChangePassword(authorization, payload, salt)
    \/ \E user_id \in 1..MaxUsers : Deactivate(user_id)

SpecCredentials == Init /\ [][NextCredentials]_vars

\* Profile and chat next to the credential: every route an account can
\* call once it holds a token
ProfilePayloads ==
    [email : {EmailA, EmailB}, password : {Pw1},
     confirm_password : {Pw1}, full_name : {None}]

ProfileLoginPayloads == [email : {EmailA}, password : {Pw1}]

ProfilePasswordPayloads ==
    [current_password : GoodPasswords, new_password : {Pw2},
     confirm_new_password : {Pw2}]

DisplayNames == {None, <<" ", "J", "o">>}

ChatTexts == {<<>>, <<"y", "o">>}

NextProfile ==
    \/ \E payload \in ProfilePayloads : RegisterStart("s1", payload)
    \/ \E salt \in Salts : RegisterFlush("s1", salt)
    \/ RegisterCommit("s1")
    \/ \E payload \in ProfileLoginPayloads : Login(payload)
    \/ \E token \in issued : Refresh(token)
    \/ \E authorization \in {None} \cup issued, payload \in ProfilePasswordPayloads,
          salt \in Salts : ChangePassword(authorization, payload, salt)
    \/ \E authorization \in {None} \cup issued, full_name \in DisplayNames :
          UpdateProfile(authorization, full_name)
    \/ \E authorization \in {None} \cup issued : Logout(authorization)
    \/ \E authorization \in {None} \cup issued, message \in ChatTexts,
          upstream \in OllamaOutcomes :
          SendMessage(authorization, message, upstream)
    \/ \E authorization \in {None} \cup issued : ClearChat(authorization)

SpecProfile == Init /\ [][NextProfile]_vars

\* Chat history and account deletion
NextChat ==
    \/ \E payload \in GuardPayloads : RegisterStart("s1", payload)
    \/ \E salt \in Salts : RegisterFlush("s1", salt)
    \/ RegisterCommit("s1")
    \/ \E authorization \in {None} \cup issued, message \in ChatTexts,
          upstream \in RelayOutcomes :
          SendMessage(authorization, message, upstream)
    \/ \E authorization \in {None} \cup issued : GetMe(authorization)
    \/ \E user_id \in 1..MaxUsers : DeleteAccount(user_id)

SpecChat == Init /\ [][NextChat]_vars

\* The password policy: register and change-password requests with
\* passwords that meet the policy and with passwords that miss one rule
\* each, repeated in the confirmation field
PolicyRegisterPayloads ==
    {[email |-> email, password |-> password, confirm_password |-> password,
      full_name |-> None] :
        email \in {EmailA, EmailB}, password \in {Pw1} \cup WeakPasswords}

PolicyPasswordPayloads ==
    {[current_password |-> current, new_password |-> new,
      confirm_new_password |-> new] :
        current \in GoodPasswords, new \in {Pw2} \cup WeakPasswords}

NextPolicy ==
    \/ \E payload \in PolicyRegisterPayloads : RegisterStart("s1", payload)
    \/ \E salt \in Salts : RegisterFlush("s1", salt)
    \/ RegisterCommit("s1")
    \/ \E authorization \in {None} \cup issued, payload \in PolicyPasswordPayloads,
          salt \in Salts : ChangePassword(authorization, payload, salt)
    \/ \E user_id \in 1..MaxUsers : Deactivate(user_id)

SpecPolicy == Init /\ [][NextPolicy]_vars

\* Two ChangePassword requests at once, each in its own session
RacePayloads ==
    [email : {EmailA}, password : {Pw1},
     confirm_password : {Pw1}, full_name : {None}]

RacePasswordPayloads ==
    {[current_password |-> current, new_password |-> new,
      confirm_new_password |-> new] :
        current \in {Pw1, Pw2}, new \in {Pw2, Pw3}}

NextRace ==
    \/ \E payload \in RacePayloads : RegisterStart("s1", payload)
    \/ \E salt \in Salts : RegisterFlush("s1", salt)
    \/ RegisterCommit("s1")
    \/ \E s \in Sessions, authorization \in {None} \cup issued,
          payload \in RacePasswordPayloads :
          ChangePasswordStart(s, authorization, payload)
    \/ \E s \in Sessions, salt \in Salts : ChangePasswordFlush(s, salt)
    \/ \E s \in Sessions : ChangePasswordCommit(s)

SpecRace == Init /\ [][NextRace]_vars

\* The two login endpoints side by side: accounts register and are disabled,
\* and the same emails and passwords are sent to /auth/login and /auth/token
LoginEmails == RawEmails \cup {PrettyEmail, NotAnEmail}

EndpointLoginPayloads == [email : LoginEmails, password : {Pw1, Pw2, <<>>}]

EndpointLoginForms == [username : LoginEmails, password : {Pw1, Pw2, <<>>}]

NextLogin ==
    \/ \E payload \in GuardPayloads : RegisterStart("s1", payload)
    \/ \E salt \in Salts : RegisterFlush("s1", salt)
    \/ RegisterCommit("s1")
    \/ \E payload \in EndpointLoginPayloads : Login(payload)
    \/ \E form \in EndpointLoginForms : LoginForm(form)
    \/ \E user_id \in 1..MaxUsers : Deactivate(user_id)

SpecLogin == Init /\ [][NextLogin]_vars

\* Password hashing on its own: any plaintext is hashed under any salt and
\* any plaintext is verified against the hash just made
LongPassword(n, last) ==
    [i \in 1..n |-> IF i = 1 THEN "1" ELSE IF i = n THEN last ELSE "a"]

\* plaintexts up to and beyond what bcrypt reads; the long ones agree on
\* their first BcryptMaxBytes characters
Plaintexts ==
    {<<>>, PwShort, Pw1, Pw2,
     LongPassword(BcryptMaxBytes, "a"),
     LongPassword(BcryptMaxBytes + 1, "a"),
     LongPassword(BcryptMaxBytes + 1, "b"),
     LongPassword(BcryptMaxBytes + MaxExtra, "a"),
     LongPassword(BcryptMaxBytes + MaxExtra, "b")}

HashSalts == {"salt1", "salt2"}

\* hash_password(plain)
HashPassword(plain, salt) ==
    /\ resp' = Response("hash_password", [plain |-> plain],
                        Success(0, hash_password(plain, salt)), None, TRUE)
    /\ UNCHANGED <<users, nextId, now, issued, sess, messages, nextMsgId>>

\* verify_password(plain, hashed) on the hash of the step before
VerifyPassword(plain) ==
    /\ resp.op = "hash_password"
    /\ resp' = Response("verify_password",
                        [plain |-> plain, hashed |-> resp.body,
                         hashed_from |-> resp.req.plain],
                        Success(0, verify_password(plain, resp.body)),
                        None, TRUE)
    /\ UNCHANGED <<users, nextId, now, issued, sess, messages, nextMsgId>>

NextHash ==
    \/ \E plain \in Plaintexts, salt \in HashSalts : HashPassword(plain, salt)
    \/ \E plain \in Plaintexts : VerifyPassword(plain)

SpecHash == Init /\ [][NextHash]_vars

----------------------------------------------------------------------------
(* Claims on password hashing, checked under SpecHash *)

\* C21: for all plaintexts p and q, also longer than what bcrypt reads, and
\* every salt, verify_password(p, hash_password(q)) is true exactly when
\* p = q; what reaches bcrypt on both paths is the SHA-256 hex digest, which
\* bcrypt reads in full.
C21_HashRoundTrip ==
    /\ \A p, q \in Plaintexts : \A salt \in HashSalts :
          /\ verify_password(p, hash_password(q, salt)) <=> p = q
          /\ Len(Prehash(p)) <= BcryptMaxBytes
          /\ BcryptInput(Prehash(p)) = Prehash(p)
    /\ resp.op = "verify_password"
         => (resp.body <=> resp.req.plain = resp.req.hashed_from)

\* a plaintext longer than bcrypt reads has just been refused against the
\* hash of another one with the same first BcryptMaxBytes characters
C21_Witness ==
    /\ resp.op = "verify_password"
    /\ resp.body = FALSE
    /\ Len(resp.req.plain) > BcryptMaxBytes
    /\ Len(resp.req.hashed_from) > BcryptMaxBytes
    /\ SubSeq(resp.req.plain, 1, BcryptMaxBytes)
         = SubSeq(resp.req.hashed_from, 1, BcryptMaxBytes)

----------------------------------------------------------------------------
(* Claims on accounts and credentials, checked under SpecAccounts *)

HasAccount(rows, email) == \E u \in rows : u.email = Strip(Lower(email))

AccountOf(rows, email) == CHOOSE u \in rows : u.email = Strip(Lower(email))

\* C1: in every store state, a Login for an email that has no account and a
\* Login for an email that has an account but with a password that does not
\* verify get the same outcome: status 401 and the same detail, headers and
\* body.
C1_LoginEnumerationResistance ==
    \A p1, p2 \in LoginPayloads :
        ( /\ LoginRequestCheck(p1) = "ok"
          /\ LoginRequestCheck(p2) = "ok"
          /\ ~HasAccount(users, p1.email)
          /\ HasAccount(users, p2.email)
          /\ ~verify_password(p2.password,
                              AccountOf(users, p2.email).hashed_password) )
        => /\ login(p1, users, now).status = 401
           /\ login(p1, users, now) = login(p2, users, now)

\* a wrong-password login has just been refused while another email of the
\* input set has no account
C1_Witness ==
    /\ resp.op = "login"
    /\ resp.status = 401
    /\ HasAccount(users, resp.req.email)
    /\ \E p \in LoginPayloads : ~HasAccount(users, p.email)

\* C2 as stated: a failing Register for email e gets the same status and
\* body whether or not the store holds an account with e.
C2_RegisterFailureHidesEmail ==
    \A payload \in AccountPayloads :
        \A u \in users :
            ( /\ u.email = Strip(Lower(payload.email))
              /\ register_early(payload, users) # None )
            => register_early(payload, users \ {u})
                   = register_early(payload, users)

\* C2 amended: schema failures (422) do not depend on the store, but a
\* Register that passes the schema for an email that has an account is
\* refused with 409 "An account with this email already exists", which the
\* same store without that account does not answer.
C2_RegisterConflictRevealsEmail ==
    \A payload \in AccountPayloads :
        \A u \in users :
            u.email = Strip(Lower(payload.email)) =>
                LET with == register_early(payload, users)
                    without == register_early(payload, users \ {u})
                IN
                IF RegisterRequestCheck(payload) # "ok"
                THEN /\ with = ValidationFailed(RegisterRequestCheck(payload))
                     /\ without = with
                ELSE /\ with = Http409Conflict
                     /\ without = None

\* a Register for a taken email has just been refused
C2_Witness ==
    /\ resp.op = "register"
    /\ resp.status = 409
    /\ HasAccount(users, resp.req.email)

UniqueEmails ==
    \A u1, u2 \in users :
        Strip(Lower(u1.email)) = Strip(Lower(u2.email)) => u1 = u2

StoredEmailsNormalized == \A u \in users : u.email = Strip(Lower(u.email))

\* C3: at most one account exists per lowercased and trimmed email and every
\* stored email is its own normalized form; a Register that passes the
\* schema and whose normalized email is that of an existing account is
\* answered 409 and goes no further, and a Register that is refused creates
\* no account.
C3_EmailUniqueness ==
    /\ [](UniqueEmails /\ StoredEmailsNormalized)
    /\ [][ /\ \A s \in Sessions :
                (sess[s].pc = "idle" /\ sess'[s].pc = "checked")
                => ~HasAccount(users, sess'[s].email)
           /\ (resp'.op = "register" /\ resp'.status # 201) => users' = users
           /\ (resp'.op = "register" /\ resp'.status = 409)
                => /\ HasAccount(users, resp'.req.email)
                   /\ sess' = sess
           /\ (resp'.op = "register" /\ resp'.status = 201)
                => /\ ~HasAccount(users, resp'.req.email)
                   /\ Cardinality(users') = Cardinality(users) + 1
         ]_vars

\* a Register with a case and whitespace variant of a taken email has just
\* been refused with 409
C3_Witness ==
    /\ resp.op = "register"
    /\ resp.status = 409
    /\ resp.req.email # Strip(Lower(resp.req.email))
    /\ \E u \in users : u.email = Strip(Lower(resp.req.email))

\* C4 as stated: when two Register requests with the same normalized email
\* both pass the pre-check, one account is created and the request that
\* loses at the INSERT is answered like a pre-check failure, 409 Conflict.
C4_RaceLoserGetsConflict ==
    /\ UniqueEmails
    /\ (resp.op = "register" /\ resp.exc = "IntegrityError")
         => /\ resp.status = 409
            /\ resp.detail = "An account with this email already exists"

\* C17: a Register answered 201 adds exactly one row to the users table,
\* with a fresh id, the normalized email, is_active true, is_verified false
\* and a hash that verifies the submitted password and no other; the
\* response carries an access token and a refresh token whose subject is
\* that id, and a view of the account that has no hashed_password.
C17_RegisterSuccess ==
    [][ (resp'.op = "register" /\ resp'.status = 201) =>
            \E row \in users' :
                /\ row \notin users
                /\ users' = users \cup {row}
                /\ \A u \in users : u.id # row.id /\ u.email # row.email
                /\ row.email = NormalizeEmail(resp'.req.email)
                /\ row.is_active
                /\ ~row.is_verified
                /\ \A pw \in GoodPasswords \cup WeakPasswords :
                      verify_password(pw, row.hashed_password)
                      <=> pw = resp'.req.password
                /\ resp'.body.access_token.payload.sub = Str(row.id)
                /\ resp'.body.access_token.payload.type = "access"
                /\ resp'.body.refresh_token.payload.sub = Str(row.id)
                /\ resp'.body.refresh_token.payload.type = "refresh"
                /\ resp'.body.user.id = row.id
                /\ resp'.body.user.email = row.email
                /\ resp'.body.user.is_active
                /\ DOMAIN resp'.body
                     = {"access_token", "refresh_token", "token_type", "user"}
                /\ "hashed_password" \notin DOMAIN resp'.body.user
      ]_vars

\* a second account has just been registered and its tokens handed out
C17_Witness ==
    /\ resp.op = "register"
    /\ resp.status = 201
    /\ Cardinality(users) = 2
    /\ resp.body.user.id = 2
    /\ resp.body.access_token \in issued
    /\ verify_password(resp.req.password,
                       get_by_id(users, 2).hashed_password)

----------------------------------------------------------------------------
(* Claims on the guard and the token routes, checked under Spec *)

GuardOrder ==
    <<"NoToken", "TokenPresent", "Decoded", "AccountResolved", "Authorized">>

\* the token decodes at the current time
Decodes(token) ==
    /\ token # None
    /\ ~JwtDecodeFails(token, JWT_SECRET_KEY, JWT_ALGORITHM, now)

\* the token's subject is the id of an account of the store
SubjectAccounts(token) ==
    IF "sub" \in DOMAIN token.payload /\ IsIntString(token.payload.sub)
    THEN {u \in users : u.id = Int_(token.payload.sub)}
    ELSE {}

Rejected401 ==
    /\ resp.status = 401
    /\ ~resp.ran
    /\ resp.guard.trace[Len(resp.guard.trace)] = "Rejected"

\* C5: a request to a protected route without a bearer token, with a token
\* that fails decode, or with a token whose subject is the id of no account
\* ends Rejected with 401 and the route's handler does not run; the guard
\* passes through NoToken, TokenPresent, Decoded, AccountResolved in this
\* order, and the handler runs only after Authorized.
C5_GuardRejection ==
    resp.op = "me" =>
        LET token == resp.req.authorization
            trace == resp.guard.trace
        IN
        /\ token = None => Rejected401
        /\ (token # None /\ ~Decodes(token)) => Rejected401
        /\ ( /\ Decodes(token)
             /\ "sub" \in DOMAIN token.payload
             /\ IsIntString(token.payload.sub)
             /\ SubjectAccounts(token) = {} ) => Rejected401
        /\ \/ trace = GuardOrder
           \/ \E k \in 1..4 : trace = SubSeq(GuardOrder, 1, k) \o <<"Rejected">>
        /\ resp.ran <=> trace = GuardOrder
        /\ resp.ran => resp.status = 200

\* a token the server issued is refused with 401 because its account is gone
C5_Witness ==
    /\ resp.op = "me"
    /\ resp.req.authorization \in issued
    /\ Decodes(resp.req.authorization)
    /\ SubjectAccounts(resp.req.authorization) = {}
    /\ resp.status = 401

\* C6 as stated: a token that decodes but whose subject is absent, empty or
\* no integer is rejected by the guard with 401.
C6_GuardSubjectCheck ==
    ( /\ resp.op = "me"
      /\ Decodes(resp.req.authorization)
      /\ \/ "sub" \notin DOMAIN resp.req.authorization.payload
         \/ resp.req.authorization.payload.sub = <<>>
         \/ ~IsIntString(resp.req.authorization.payload.sub) )
    => resp.status = 401

\* C7: the guard reads the account from the store once per request, so a
\* request with an unexpired token of an account whose is_active is false
\* in the store is rejected with 403, whatever was answered before.
C7_DeactivationImmediate ==
    resp.op = "me" =>
        LET token == resp.req.authorization IN
        /\ resp.guard.lookups =
             IF /\ Decodes(token)
                /\ "sub" \in DOMAIN token.payload
                /\ IsIntString(token.payload.sub)
             THEN 1 ELSE 0
        /\ ( /\ Decodes(token)
             /\ \E u \in SubjectAccounts(token) : ~u.is_active )
           => (resp.status = 403 /\ ~resp.ran)

\* an issued, unexpired access token of a disabled account is refused
C7_Witness ==
    /\ resp.op = "me"
    /\ resp.req.authorization \in issued
    /\ resp.req.authorization.payload.type = "access"
    /\ Decodes(resp.req.authorization)
    /\ \E u \in SubjectAccounts(resp.req.authorization) : ~u.is_active
    /\ resp.status = 403

\* C8 as stated: all 401 rejections of the guard for a presented token carry
\* the same body and headers.
C8_Uniform401 ==
    \A t1, t2 \in issued \cup ForgedTokens :
        LET g1 == get_current_user(t1, users, now)
            g2 == get_current_user(t2, users, now)
        IN
        (~g1.ok /\ ~g2.ok /\ g1.error.status = 401 /\ g2.error.status = 401)
        => g1.error = g2.error

\* C9 as stated: a token with purpose "refresh" presented as the bearer
\* token of a protected route never reaches Authorized.
C9_RefreshNeverAuthorizes ==
    ( /\ resp.op = "me"
      /\ resp.req.authorization \in issued
      /\ resp.req.authorization.payload.type = "refresh" )
    => ~resp.ran

\* C9 amended: every token response carries an access_token of purpose
\* "access" and a refresh_token of purpose "refresh", but the guard does not
\* look at the purpose: an issued token of either purpose is authorized
\* exactly when it is unexpired and its subject is an active account.
C9_PurposeNotEnforced ==
    /\ \A token \in issued :
          get_current_user(token, users, now).ok
          <=> /\ token.payload.exp >= now
              /\ \E u \in SubjectAccounts(token) : u.is_active
    /\ (resp.op \in {"register", "refresh"} /\ resp.status \in {200, 201})
         => /\ resp.body.access_token.payload.type = "access"
            /\ resp.body.refresh_token.payload.type = "refresh"
            /\ {resp.body.access_token, resp.body.refresh_token} \subseteq issued

\* a refresh token has just authorized GET /auth/me
C9_Witness ==
    /\ resp.op = "me"
    /\ resp.ran
    /\ resp.req.authorization \in issued
    /\ resp.req.authorization.payload.type = "refresh"

\* C10 as stated: Refresh answers 401 for a token that fails decode, 401
\* for a token that decodes but whose subject has no account, and otherwise
\* a new access and refresh token with the subject of the presented token.
C10_RefreshOutcome ==
    resp.op = "refresh" =>
        LET token == resp.req.refresh_token IN
        /\ ~Decodes(token) => resp.status = 401
        /\ (Decodes(token) /\ SubjectAccounts(token) = {}) => resp.status = 401
        /\ (Decodes(token) /\ SubjectAccounts(token) # {})
             => /\ resp.status = 200
                /\ resp.body.access_token.payload.sub = token.payload.sub
                /\ resp.body.refresh_token.payload.sub = token.payload.sub

\* the configured lifetime of a token of the given purpose
Lifetime(type) ==
    IF type = "access" THEN JWT_ACCESS_TOKEN_EXPIRE_MINUTES
    ELSE JWT_REFRESH_TOKEN_EXPIRE_DAYS

\* an issued token with one of its parts altered
Alterations(token) ==
    {[token EXCEPT !.payload.exp = @ + 1],
     [token EXCEPT !.payload.sub = <<"9">>],
     [token EXCEPT !.payload.type = "admin"],
     [token EXCEPT !.signature = <<"forged">>],
     [token EXCEPT !.header = "HS512"]}

\* C19: a token handed out at time t expires at t plus the lifetime of its
\* purpose; decode accepts an issued token at every time up to its expiry
\* and rejects it at every later time, whatever the state of any other
\* token; it rejects every issued token of which a part was altered and
\* every issued token when verified with another secret; the access token
\* and the refresh token of one response expire at different times.
C19_ValidityWindow ==
    /\ [](\A tok \in issued :
            /\ tok.payload.exp - Lifetime(tok.payload.type) \in 0..now
            /\ decode_token(tok, now).ok <=> now <= tok.payload.exp
            /\ \A t \in 0..FarFuture :
                  decode_token(tok, t).ok <=> t <= tok.payload.exp
            /\ \A alt \in Alterations(tok) : ~decode_token(alt, now).ok
            /\ JwtDecodeFails(tok, "other-key", JWT_ALGORITHM, now))
    /\ [][ /\ \A tok \in issued' \ issued :
                 tok.payload.exp = now + Lifetime(tok.payload.type)
           /\ (resp'.op \in {"register", "refresh"}
                 /\ resp'.status \in {200, 201})
                => resp'.body.access_token.payload.exp
                     # resp'.body.refresh_token.payload.exp
         ]_vars

\* of one account, an access token has expired while a refresh token is
\* still valid, and a refresh token has expired while an access token is
\* still valid
C19_Witness ==
    \E a1, r1, a2, r2 \in issued :
        /\ a1.payload.type = "access" /\ a2.payload.type = "access"
        /\ r1.payload.type = "refresh" /\ r2.payload.type = "refresh"
        /\ {a1.payload.sub, r1.payload.sub, a2.payload.sub} = {r2.payload.sub}
        /\ ~decode_token(a1, now).ok /\ decode_token(r1, now).ok
        /\ decode_token(a2, now).ok /\ ~decode_token(r2, now).ok

\* tokens that decode refuses for each cause: no JWT at all, signed with
\* another key, another algorithm, a part altered, expired
RefusedTokens ==
    {tok \in issued \cup ForgedTokens
              \cup UNION {Alterations(tok) : tok \in issued} :
        ~decode_token(tok, now).ok}

\* C20: decode_token answers every token it refuses - malformed, wrongly
\* signed, expired or of another algorithm - with one and the same error:
\* status 401, detail "Invalid or expired token", header WWW-Authenticate:
\* Bearer; a protected route and Refresh pass that error on unchanged.
C20_UniformDecodeRejection ==
    /\ LET decoded == {decode_token(tok, now) : tok \in RefusedTokens}
           guarded == {get_current_user(tok, users, now).error :
                         tok \in RefusedTokens}
           refreshed == {refresh_token(tok, users, now) :
                           tok \in RefusedTokens}
       IN
       /\ Cardinality(decoded) <= 1
       /\ Cardinality(guarded) <= 1
       /\ Cardinality(refreshed) <= 1
       /\ \A out \in decoded :
             /\ out.error.status = 401
             /\ out.error.detail = "Invalid or expired token"
             /\ out.error.headers = BearerChallenge
             /\ guarded = {out.error}
             /\ refreshed = {out.error}
    /\ ( /\ resp.op = "me"
         /\ resp.req.authorization \in RefusedTokens )
       => /\ resp.status = 401
          /\ resp.detail = "Invalid or expired token"
          /\ resp.headers = BearerChallenge

\* an expired token of the server's own making has just been refused while
\* a malformed token, one of another key and one of another algorithm are
\* refused as well
C20_Witness ==
    /\ resp.op = "me"
    /\ resp.req.authorization \in issued
    /\ resp.req.authorization.payload.exp < now
    /\ resp.status = 401
    /\ Cardinality(RefusedTokens \ issued) >= 3

----------------------------------------------------------------------------
(* Claims on the token lifecycle, checked under SpecSessions *)

\* C11: no token is revoked on the server.  An issued token that is
\* unexpired and whose account is active is accepted by decode, by the
\* guard and by Refresh, whatever Logout and Refresh calls came before; a
\* Logout or Refresh step leaves the outcome of decode, of the guard and of
\* Refresh unchanged for every token issued before it; Logout changes no
\* server state and hands out nothing.
C11_NoRevocation ==
    /\ [](\A tok \in issued :
            ( /\ tok.payload.exp >= now
              /\ \E u \in SubjectAccounts(tok) : u.is_active )
            => /\ decode_token(tok, now).ok
               /\ get_current_user(tok, users, now).ok
               /\ refresh_token(tok, users, now).status = 200)
    /\ [][ /\ resp'.op \in {"logout", "refresh"} =>
                /\ <<users, nextId, messages, nextMsgId, sess>>'
                      = <<users, nextId, messages, nextMsgId, sess>>
                /\ issued \subseteq issued'
                /\ \A tok \in issued :
                      /\ decode_token(tok, now') = decode_token(tok, now)
                      /\ get_current_user(tok, users', now')
                            = get_current_user(tok, users, now)
                      /\ refresh_token(tok, users', now')
                            = refresh_token(tok, users, now)
           /\ resp'.op = "logout" => issued' = issued
         ]_vars

\* a refresh token has just been exchanged for a new pair and is still
\* good for another exchange
C11_Witness ==
    /\ resp.op = "refresh"
    /\ resp.status = 200
    /\ resp.req.refresh_token \in issued
    /\ resp.req.refresh_token.payload.type = "refresh"
    /\ resp.req.refresh_token
         \notin {resp.body.access_token, resp.body.refresh_token}
    /\ refresh_token(resp.req.refresh_token, users, now).status = 200

----------------------------------------------------------------------------
(* Claims on credentials, checked under SpecCredentials *)

\* the account the guard resolves the token to in the given table
GuardAccount(token, rows, t) == get_current_user(token, rows, t).user

\* C12: a ChangePassword that passed the guard and whose current_password
\* does not verify against the account's stored hash is never answered 200
\* and leaves the users table as it was; when the body passes the schema it
\* is answered 400 "Current password is incorrect".
C12_WrongCurrentPassword ==
    [][ ( /\ resp'.op = "change_password"
          /\ resp'.guard.trace = GuardOrder
          /\ ~verify_password(
                 resp'.req.payload.current_password,
                 GuardAccount(resp'.req.authorization, users, now).hashed_password) )
        => /\ users' = users
           /\ resp'.status # 200
           /\ ChangePasswordRequestCheck(resp'.req.payload) = "ok"
                => /\ resp'.status = 400
                   /\ resp'.detail = "Current password is incorrect"
      ]_vars

\* an authorized ChangePassword has just been refused with 400 and the
\* account's hash still verifies another password than the one presented
C12_Witness ==
    /\ resp.op = "change_password"
    /\ resp.status = 400
    /\ resp.guard.trace = GuardOrder
    /\ LET user == GuardAccount(resp.req.authorization, users, now) IN
       /\ user # None
       /\ ~verify_password(resp.req.payload.current_password,
                           user.hashed_password)
       /\ verify_password(Pw1, user.hashed_password)

ChangePasswordDone == resp'.op = "change_password" /\ resp'.status = 200

\* C13: when a ChangePassword succeeds, the new password differs from the
\* presented current one, Login with the account's email and the new
\* password succeeds and Login with the old password is answered 401; and
\* every step that is not a successful ChangePassword leaves, for every
\* login request to an existing account, a 401 a 401 and a success a
\* success (while the account stays active).
C13_PasswordRotation ==
    [][ /\ ChangePasswordDone =>
              LET user == GuardAccount(resp'.req.authorization, users', now')
                  old == resp'.req.payload.current_password
                  new == resp'.req.payload.new_password
              IN
              /\ user # None
              /\ new # old
              /\ verify_password(new, user.hashed_password)
              /\ ~verify_password(old, user.hashed_password)
              /\ login([email |-> user.email, password |-> new],
                       users', now').status = 200
              /\ login([email |-> user.email, password |-> old],
                       users', now').status = 401
        /\ ~ChangePasswordDone =>
              \A p \in CredentialLoginPayloads :
                  HasAccount(users, p.email) =>
                      LET before == login(p, users, now).status
                          after == login(p, users', now').status
                      IN
                      /\ after = 401 <=> before = 401
                      /\ ( /\ before = 200
                           /\ AccountOf(users', p.email).is_active )
                         => after = 200
      ]_vars

\* after a rotation from Pw1 to Pw2, a Login with the old password has just
\* been refused and a Login with the new one would succeed
C13_Witness ==
    /\ resp.op = "login"
    /\ resp.status = 401
    /\ resp.req.password = Pw1
    /\ HasAccount(users, resp.req.email)
    /\ verify_password(Pw2, AccountOf(users, resp.req.email).hashed_password)
    /\ login([email |-> resp.req.email, password |-> Pw2], users, now).status
         = 200

\* C18: right after a Register answered 201, a Login with the registered
\* password and any spelling of the email (letter case, surrounding
\* whitespace) succeeds; in every state a Login whose email normalizes to
\* that of an active account and whose password verifies against its hash
\* succeeds, and both returned tokens resolve through the guard to that
\* account; the hash it verifies against changes only by a successful
\* ChangePassword.
C18_RegisterLoginRoundTrip ==
    /\ [](\A u \in users : \A p \in CredentialLoginPayloads :
            ( /\ NormalizeEmail(p.email) = u.email
              /\ verify_password(p.password, u.hashed_password)
              /\ u.is_active )
            => LET out == login(p, users, now) IN
               /\ out.status = 200
               /\ out.body.user.id = u.id
               /\ GuardAccount(out.body.access_token, users, now) = u
               /\ GuardAccount(out.body.refresh_token, users, now) = u)
    /\ [][ /\ (resp'.op = "register" /\ resp'.status = 201) =>
                \A raw \in RawEmails :
                    NormalizeEmail(raw) = NormalizeEmail(resp'.req.email) =>
                        LET out == login([email |-> raw,
                                          password |-> resp'.req.password],
                                         users', now')
                        IN
                        /\ out.status = 200
                        /\ out.body.user.id = resp'.body.user.id
                        /\ GuardAccount(out.body.access_token, users', now').id
                             = resp'.body.user.id
           /\ \A u \in users, v \in users' :
                 (u.id = v.id /\ u.hashed_password # v.hashed_password)
                 => ChangePasswordDone
         ]_vars

\* a Login that spells the email in upper case and with spaces around it
\* has just succeeded, and its access token resolves to the account
C18_Witness ==
    /\ resp.op = "login"
    /\ resp.status = 200
    /\ resp.req.email # NormalizeEmail(resp.req.email)
    /\ GuardAccount(resp.body.access_token, users, now) # None
    /\ GuardAccount(resp.body.access_token, users, now).email
         = NormalizeEmail(resp.req.email)

----------------------------------------------------------------------------
(* Claims on credentials, profile and chat, checked under SpecProfile *)

\* C14: an account's stored hash changes only in a ChangePassword step
\* that is answered 200, whose guard resolved the presented token to that
\* account and whose current_password verified against the hash stored
\* before the step; Login, Refresh, UpdateProfile, Logout, the chat routes
\* and every request of another account leave it as it was.
C14_HashChangesOnlyByOwner ==
    [][ /\ \A u \in users, v \in users' :
              (u.id = v.id /\ u.hashed_password # v.hashed_password) =>
                  /\ ChangePasswordDone
                  /\ resp'.guard.trace = GuardOrder
                  /\ GuardAccount(resp'.req.authorization, users, now) = u
                  /\ verify_password(resp'.req.payload.current_password,
                                     u.hashed_password)
        /\ resp'.op \in {"login", "refresh", "update_profile", "logout",
                          "chat", "clear_chat"}
              => \A u \in users : \E v \in users' :
                     v.id = u.id /\ v.hashed_password = u.hashed_password
      ]_vars

\* an account has just changed its password to Pw2 while another account
\* still has the hash it registered with
C14_Witness ==
    /\ resp.op = "change_password"
    /\ resp.status = 200
    /\ LET user == GuardAccount(resp.req.authorization, users, now) IN
       /\ user # None
       /\ verify_password(Pw2, user.hashed_password)
       /\ \E other \in users :
             other.id # user.id /\ verify_password(Pw1, other.hashed_password)

\* C15 as stated: after a successful PUT /auth/me with display name d, the
\* account's stored full_name is d without its leading and trailing
\* whitespace (and the response shows the same value).
C15_ProfileNameTrimmed ==
    (resp.op = "update_profile" /\ resp.status = 200) =>
        LET user == GuardAccount(resp.req.authorization, users, now) IN
        /\ user.full_name = Strip(resp.req.full_name)
        /\ resp.body.full_name = Strip(resp.req.full_name)

----------------------------------------------------------------------------
(* Claims on chat history and deletion, checked under SpecChat *)

\* every chat message belongs to an account of the store
MessagesOwned == \A m \in messages : \E u \in users : u.id = m.user_id

\* ids come from the sequence and are not handed out twice
IdsFresh == \A u \in users : u.id < nextId

\* C16: a DeleteAccount step removes the account's row and every chat
\* message of that account at once and leaves the rows and messages of
\* other accounts as they were; from then on the lookup by that id finds
\* nothing, no chat message refers to an id without an account, and every
\* issued token whose subject has no account is rejected by the guard
\* with 401.
C16_DeleteCascades ==
    /\ [](/\ MessagesOwned
          /\ IdsFresh
          /\ \A tok \in issued :
                SubjectAccounts(tok) = {} =>
                    LET g == get_current_user(tok, users, now) IN
                    ~g.ok /\ g.error.status = 401)
    /\ [][ resp'.op = "delete" =>
              LET id == resp'.req.user_id IN
              /\ get_by_id(users, id) # None
              /\ get_by_id(users', id) = None
              /\ \A m \in messages' : m.user_id # id
              /\ users' = {u \in users : u.id # id}
              /\ messages' = {m \in messages : m.user_id # id}
              /\ nextId' = nextId
         ]_vars

\* an account that had two chat messages has just been deleted, the two
\* messages of the other account are still there, and a token of the
\* deleted account is still in a client's hands
C16_Witness ==
    /\ resp.op = "delete"
    /\ nextMsgId = 5
    /\ Cardinality(messages) = 2
    /\ get_by_id(users, resp.req.user_id) = None
    /\ \E tok \in issued :
          /\ tok.payload.sub = Str(resp.req.user_id)
          /\ get_current_user(tok, users, now).error.status = 401

----------------------------------------------------------------------------
(* Claims on the password policy, checked under SpecPolicy *)

\* the three ways a password misses the policy, and the rule each one names
WeakPassword(v) == Len(v) < PasswordMinLength \/ ~HasLetter(v) \/ ~HasDigit(v)

PolicyRule(v, field, prefix) ==
    IF Len(v) < PasswordMinLength THEN field \o " length"
    ELSE IF ~HasLetter(v) THEN prefix \o " must contain at least one letter"
    ELSE prefix \o " must contain at least one number"

\* C22: a Register whose password is shorter than 8 characters, has no letter
\* or has no digit is answered 422 naming the unmet rule before the service
\* runs, and a ChangePassword whose new_password is so is answered 422 once
\* the guard has let the caller through (and 401 or 403 when it has not);
\* neither step creates an account, opens an insert or changes a stored hash.
C22_PasswordPolicy ==
    [][ /\ ( resp'.op = "register" /\ WeakPassword(resp'.req.password) )
           => /\ resp'.status = 422
              /\ resp'.exc = "RequestValidationError"
              /\ resp'.detail = PolicyRule(resp'.req.password,
                                           "password", "Password")
              /\ ~resp'.ran
              /\ users' = users /\ sess' = sess /\ nextId' = nextId
              /\ issued' = issued
        /\ ( resp'.op = "change_password"
             /\ WeakPassword(resp'.req.payload.new_password) )
           => /\ users' = users /\ issued' = issued
              /\ ~resp'.ran
              /\ resp'.status \in {401, 403, 422}
              /\ resp'.guard.trace = GuardOrder
                   => /\ resp'.status = 422
                      /\ resp'.exc = "RequestValidationError"
                      /\ resp'.detail =
                           PolicyRule(resp'.req.payload.new_password,
                                      "new_password", "New password")
      ]_vars

\* an authorized ChangePassword whose new_password has no letter (and is
\* repeated in confirm_new_password) has just been answered 422, and the
\* account still verifies the password it registered with
C22_Witness ==
    /\ resp.op = "change_password"
    /\ resp.status = 422
    /\ resp.guard.trace = GuardOrder
    /\ resp.req.payload.new_password = PwNoLetter
    /\ resp.req.payload.confirm_new_password = PwNoLetter
    /\ \E u \in users : verify_password(Pw1, u.hashed_password)

----------------------------------------------------------------------------
(* Claims on login to a disabled account, checked under SpecAccounts *)

\* C23: a Login that passed the schema is answered 403 exactly when the
\* email has an account, the password verifies against its hash and the
\* account is disabled; a wrong password on a disabled account gets the
\* ordinary 401 "Incorrect email or password"; a Login answered 200 is for
\* an active account, and only such a Login hands out tokens.
C23_LoginDisabled ==
    [][ ( resp'.op = "login" /\ resp'.ran )
        => LET user == get_by_email(users, resp'.req.email)
               verified == /\ user # None
                           /\ verify_password(resp'.req.password,
                                              user.hashed_password)
           IN
           /\ resp'.status = 403 <=> (verified /\ ~user.is_active)
           /\ resp'.status = 403
                => resp'.detail = Http403Disabled.detail
           /\ ( user # None /\ ~user.is_active /\ ~verified )
                => /\ resp'.status = 401
                   /\ resp'.detail = Http401Credentials.detail
                   /\ resp'.headers = BearerChallenge
           /\ resp'.status = 200
                => /\ verified /\ user.is_active
                   /\ resp'.body.user.id = user.id
                   /\ resp'.body.access_token.payload.sub = Str(user.id)
                   /\ resp'.body.refresh_token.payload.sub = Str(user.id)
           /\ resp'.status # 200 => issued' = issued
           /\ users' = users
      ]_vars

\* a Login with the right password has just been answered 403 for an
\* account that is disabled
C23_Witness ==
    /\ resp.op = "login"
    /\ resp.status = 403
    /\ \E u \in users :
          /\ u.email = NormalizeEmail(resp.req.email)
          /\ ~u.is_active
          /\ verify_password(resp.req.password, u.hashed_password)

----------------------------------------------------------------------------
(* Claims on the credentials of a disabled account, checked under          *)
(* SpecSessions                                                            *)

\* the account a token response was made for, as the table holds it now
TokenAccount(body, rows) == get_by_id(rows, body.user.id)

\* C24 as stated: no Login, no form login at /auth/token and no Refresh
\* returns a token pair for an account whose active flag is false.
C24_DisabledGetsNoTokens ==
    [][ ( resp'.op \in {"login", "token", "refresh"} /\ resp'.status = 200 )
        => TokenAccount(resp'.body, users).is_active
      ]_vars

----------------------------------------------------------------------------
(* Claims on concurrent ChangePassword requests, checked under SpecRace *)

\* C25 as stated: whatever the interleaving of two ChangePassword requests
\* on one account, a request is answered 200 only if the current_password it
\* presented verifies against the hash the table holds at the moment the
\* request's new hash is written.
C25_NoStaleSuccess ==
    [][ ( resp'.op = "change_password" /\ resp'.status = 200 )
        => verify_password(
               resp'.req.payload.current_password,
               GuardAccount(resp'.req.authorization, users, now).hashed_password)
      ]_vars

----------------------------------------------------------------------------
(* Claims on sending a chat message, checked under SpecChat *)

\* C26: a POST /chat answered 200 adds exactly two messages, both owned by
\* the caller: the next id with role "user" and the request's message, the
\* id after it with role "assistant" and the reply of the response; every
\* message stored before stays as it was. A POST /chat that the guard
\* rejects (401, 403), whose body fails the schema (422) or whose call to
\* Ollama fails (503, 504, 502, or an exception answered 500) adds and
\* removes no message.
C26_SendAllOrNothing ==
    [][ resp'.op = "chat"
        => /\ resp'.status \in {200, 401, 403, 422, 500, 502, 503, 504}
           /\ resp'.guard.trace # GuardOrder => resp'.status \in {401, 403, 500}
           /\ resp'.status = 200
                => LET user == GuardAccount(resp'.req.authorization, users, now)
                   IN
                   /\ resp'.guard.trace = GuardOrder
                   /\ messages \subseteq messages'
                   /\ messages' \ messages =
                        {ChatMessage(nextMsgId, user.id, "user",
                                     resp'.req.message),
                         ChatMessage(nextMsgId + 1, user.id, "assistant",
                                     resp'.body.reply)}
                   /\ Cardinality(messages') = Cardinality(messages) + 2
                   /\ nextMsgId' = nextMsgId + 2
           /\ resp'.status # 200
                => messages' = messages /\ nextMsgId' = nextMsgId
           /\ users' = users
      ]_vars

\* an authorized POST /chat has just failed at the relay after an earlier
\* one of the same account had stored its two messages
C26_Witness ==
    /\ resp.op = "chat"
    /\ resp.status \in {502, 503, 504}
    /\ resp.guard.trace = GuardOrder
    /\ LET user == GuardAccount(resp.req.authorization, users, now) IN
       Cardinality({m \in messages : m.user_id = user.id}) = 2

----------------------------------------------------------------------------
(* Claims on the two login endpoints, checked under SpecLogin *)

\* the part of an outcome the client sees
Outcome(out) == [status |-> out.status, detail |-> out.detail,
                 headers |-> out.headers, body |-> out.body]

\* C27 as stated: in every store state, for every email and password that
\* both request formats accept, POST /auth/login and POST /auth/token give
\* the same outcome (tokens for the same subject, 401 or 403), and neither
\* changes the store.
C27_LoginEndpointsAgree ==
    [][ resp'.op \in {"login", "token"}
        => LET email == IF resp'.op = "login" THEN resp'.req.email
                        ELSE resp'.req.username
               json == login([email |-> email,
                              password |-> resp'.req.password], users, now)
               form == login_oauth2_form([username |-> email,
                                          password |-> resp'.req.password],
                                         users, now)
           IN
           /\ users' = users
           /\ ( json.status # 422 /\ form.status # 422 )
                => Outcome(json) = Outcome(form)
      ]_vars

====
